---- MODULE Spec2Model ----
(***************************************************************************)
(* Level World (src/Level_World.py): a turn-based roguelike.               *)
(*                                                                         *)
(* The model covers the dungeon generator (GameMap), the actor model       *)
(* (Actor.move / take_damage / gain_xp / level_up / attack_target) and the *)
(* turn engine (Game.handle_keys / _combat_and_items / next_floor).        *)
(* Rendering, fonts and argument parsing are left out: they read the state *)
(* and never write it.                                                     *)
(*                                                                         *)
(* Random draws (random.randint, random.random, random.choice) are         *)
(* nondeterministic choices.  Where the code's range is too large to       *)
(* enumerate, the actions draw from a named subset of the code's range.    *)
(***************************************************************************)
EXTENDS Integers, Sequences, FiniteSets, TLC

VARIABLES
    tiles,      \* GameMap.tiles: the set of cells <<x, y>> whose Tile.blocked is False
    rooms,      \* GameMap.rooms: sequence of Rect records, in acceptance order
    items,      \* GameMap.items: sequence of Item records
    player,     \* Game.player (NoPlayer before the first next_floor finishes)
    actors,     \* Game.actors: sequence; PlayerRef stands for the player object
    pc,         \* position inside Game.__init__ / next_floor / the event loop
    loopi,      \* index of the running for-loop of the generator or the spawner
    saved,      \* locals inv, lvl, xp of next_floor
    routes,     \* history: the random.choice of each accepted room after the first
    floorNo,    \* history: number of next_floor calls so far
    turns,      \* history: number of turns (_combat_and_items calls) so far
    genlog,     \* history: the first candidate drawn and the number of draws
    last,       \* history: what the latest turn did
    harness     \* state of the function harnesses (SpecXp, SpecCombat)

vars == <<tiles, rooms, items, player, actors, pc, loopi, saved, routes,
          floorNo, turns, genlog, last, harness>>

gameVars == <<tiles, rooms, items, player, actors, pc, loopi, saved, routes,
              floorNo, turns, genlog, last>>

(***************************************************************************)
(* Program constants                                                       *)
(***************************************************************************)
MAP_WIDTH == 40
MAP_HEIGHT == 30
ROOM_MAX_SIZE == 10
ROOM_MIN_SIZE == 6
MAX_ROOMS == 8

Max(a, b) == IF a >= b THEN a ELSE b
Min(a, b) == IF a <= b THEN a ELSE b

(***************************************************************************)
(* Actor                                                                   *)
(***************************************************************************)
\* Actor.__init__: the fields every actor has.
Actor(x, y, name, hp, attack, defense, speed) ==
    [x |-> x, y |-> y, name |-> name, max_hp |-> hp, hp |-> hp,
     attack |-> attack, defense |-> defense, speed |-> speed,
     level |-> 1, xp |-> 0, stat_points |-> 0, inventory |-> <<>>]

Warrior(x, y) == Actor(x, y, "Warrior", 30, 5, 3, 2)
Rogue(x, y) == Actor(x, y, "Rogue", 20, 7, 2, 3)
Mage(x, y) == Actor(x, y, "Mage", 18, 9, 1, 2)

\* monster_templates, in table order.
monster_templates ==
    << [name |-> "Rat",      hp |-> 10, attack |-> 3, defense |-> 0, speed |-> 2, xp |-> 10],
       [name |-> "Bat",      hp |-> 8,  attack |-> 4, defense |-> 0, speed |-> 3, xp |-> 12],
       [name |-> "Goblin",   hp |-> 16, attack |-> 5, defense |-> 1, speed |-> 2, xp |-> 20],
       [name |-> "Skeleton", hp |-> 20, attack |-> 6, defense |-> 2, speed |-> 1, xp |-> 25],
       [name |-> "Ghost",    hp |-> 12, attack |-> 7, defense |-> 0, speed |-> 4, xp |-> 30] >>

\* Monster.__init__: an Actor plus xp_yield.
Monster(x, y, tmpl) ==
    [x |-> x, y |-> y, name |-> tmpl.name, max_hp |-> tmpl.hp, hp |-> tmpl.hp,
     attack |-> tmpl.attack, defense |-> tmpl.defense, speed |-> tmpl.speed,
     level |-> 1, xp |-> 0, stat_points |-> 0, inventory |-> <<>>,
     xp_yield |-> tmpl.xp]

\* getattr(target, 'xp_yield', 0)
xp_yield_of(target) ==
    IF "xp_yield" \in DOMAIN target THEN target.xp_yield ELSE 0

\* Actor.level_up without the stat points (mutated).
level_up_NoPoints(a) == [a EXCEPT !.level = a.level + 1]

\* Actor.level_up
level_up(a) ==
    [a EXCEPT !.level = a.level + 1, !.stat_points = a.stat_points + 5]

\* Actor.gain_xp with a strict threshold test (mutated).
gain_xp_StrictThreshold(a, amount) ==
    LET b == [a EXCEPT !.xp = a.xp + amount]
        thresh == b.level * 50
    IN  IF b.xp > thresh
        THEN level_up([b EXCEPT !.xp = b.xp - thresh])
        ELSE b

\* Actor.gain_xp: one threshold test, hence at most one level per call.
gain_xp(a, amount) ==
    LET b == [a EXCEPT !.xp = a.xp + amount]
        thresh == b.level * 50
    IN  IF b.xp >= thresh
        THEN level_up([b EXCEPT !.xp = b.xp - thresh])
        ELSE b

\* Actor.take_damage: the actor afterwards; the returned flag is Died(actor').
take_damage(a, amount) == [a EXCEPT !.hp = a.hp - amount]
Died(a) == a.hp <= 0

(***************************************************************************)
(* Harness for gain_xp: one call with the total against a split of it.     *)
(***************************************************************************)
XpUnit == 10            \* gains are multiples of XpUnit
MaxGainUnits == 16      \* the total is at most MaxGainUnits * XpUnit
MaxStartLevel == 2      \* starting levels 1 .. MaxStartLevel

Gains(n) == {k * XpUnit : k \in 0..n}

XpStarts ==
    {[Warrior(0, 0) EXCEPT !.level = l, !.xp = x, !.stat_points = 5 * (l - 1)] :
        <<l, x>> \in {p \in (1..MaxStartLevel) \X Gains(MaxStartLevel * 5) :
                        p[2] < p[1] * 50}}

IdleGame ==
    /\ tiles = {} /\ rooms = <<>> /\ items = <<>> /\ player = [name |-> "none"]
    /\ actors = <<>> /\ pc = "harness" /\ loopi = 0 /\ saved = <<>>
    /\ routes = <<>> /\ floorNo = 0 /\ turns = 0 /\ last = <<>>
    /\ genlog = <<>>

XpInit ==
    /\ IdleGame
    /\ \E a \in XpStarts, t \in Gains(MaxGainUnits) :
         harness = [start |-> a, total |-> t, split |-> a, left |-> t, called |-> FALSE]

\* The next call of the split sequence: gain_xp(g) with 0 <= g <= what is left.
XpGain ==
    /\ pc = "harness"
    /\ "left" \in DOMAIN harness
    /\ \E g \in Gains(MaxGainUnits) :
         /\ g <= harness.left
         /\ harness' = [harness EXCEPT !.split = gain_xp(harness.split, g),
                                       !.left = harness.left - g,
                                       !.called = TRUE]
    /\ UNCHANGED gameVars

XpNext == XpGain
SpecXp == XpInit /\ [][XpNext]_vars

\* C1: gain_xp is split-invariant: once the gains of a sequence sum to the
\* total X, (level, leftover xp) equals that of a single gain_xp(X) from the
\* same start.
C1_SplitInvariant ==
    ("left" \in DOMAIN harness /\ harness.left = 0 /\ harness.called) =>
        LET once == gain_xp(harness.start, harness.total)
        IN  /\ harness.split.level = once.level
            /\ harness.split.xp = once.xp

(***************************************************************************)
(* Combat                                                                  *)
(***************************************************************************)
\* random.random() < speed / (speed + target.speed): the outcomes the draw
\* can produce (a value of 0 hits unless the chance is 0, a value just below
\* 1 misses unless the chance is 1).
HitDraws(a, target) ==
    {h \in BOOLEAN : IF h THEN a.speed > 0 ELSE target.speed > 0}

\* Actor.attack_target with the mutated damage formula (no floor of 1).
attack_target_NoFloor(a, target, hit, base) ==
    LET dmg == IF hit THEN base - target.defense ELSE 0
        t2 == take_damage(target, dmg)
        died == Died(t2)
    IN  [attacker |-> IF died THEN gain_xp(a, xp_yield_of(target)) ELSE a,
         target |-> t2, dmg |-> dmg, died |-> died]

\* Actor.attack_target with xp granted on every hit (mutated).
attack_target_XpOnHit(a, target, hit, base) ==
    LET dmg == IF hit THEN Max(1, base - target.defense) ELSE 0
        t2 == take_damage(target, dmg)
        died == Died(t2)
    IN  [attacker |-> IF hit THEN gain_xp(a, xp_yield_of(target)) ELSE a,
         target |-> t2, dmg |-> dmg, died |-> died]

\* Actor.attack_target: hit is the outcome of random.random() < chance, base
\* the value of random.randint(1, self.attack).  Returns the two actors
\* afterwards and the pair (dmg, died).
attack_target(a, target, hit, base) ==
    LET dmg == IF hit THEN Max(1, base - target.defense) ELSE 0
        t2 == take_damage(target, dmg)
        died == Died(t2)
    IN  [attacker |-> IF died THEN gain_xp(a, xp_yield_of(target)) ELSE a,
         target |-> t2, dmg |-> dmg, died |-> died]

(***************************************************************************)
(* Harness for attack_target: every attacker/defender pair of the three    *)
(* classes and the five templates, every draw, MaxAttacks attacks in a row.*)
(***************************************************************************)
MaxAttacks == 2

Combatants ==
    {Warrior(0, 0), Rogue(0, 0), Mage(0, 0)} \cup
    {Monster(0, 0, monster_templates[i]) : i \in DOMAIN monster_templates}

CombatInit ==
    /\ IdleGame
    /\ \E a \in Combatants, t \in Combatants :
         harness = [att |-> a, tgt |-> t, att0 |-> a, tgt0 |-> t,
                    prevAtt |-> a, prevTgt |-> t,
                    hit |-> FALSE, base |-> 0, dmg |-> 0, died |-> FALSE,
                    draws |-> <<>>]

CombatAttack ==
    /\ pc = "harness"
    /\ "att" \in DOMAIN harness
    /\ Len(harness.draws) < MaxAttacks
    /\ \E hit \in HitDraws(harness.att, harness.tgt), base \in 1..harness.att.attack :
         LET r == attack_target(harness.att, harness.tgt, hit, base)
         IN  harness' = [harness EXCEPT
                           !.prevAtt = harness.att, !.prevTgt = harness.tgt,
                           !.att = r.attacker, !.tgt = r.target,
                           !.hit = hit, !.base = base,
                           !.dmg = r.dmg, !.died = r.died,
                           !.draws = Append(harness.draws, <<hit, base>>)]
    /\ UNCHANGED gameVars

CombatNext == CombatAttack
SpecCombat == CombatInit /\ [][CombatNext]_vars

Attacked == "att" \in DOMAIN harness /\ harness.draws # <<>>

\* C7: on a hit the damage is max(1, roll - defender.defense) with the roll in
\* 1..attacker.attack, hence at least 1; on a miss it is exactly 0.
C7_Damage ==
    Attacked =>
        LET d == harness.dmg
            raw == harness.base - harness.prevTgt.defense
        IN  /\ harness.base \in 1..harness.prevAtt.attack
            /\ harness.hit => /\ d >= 1
                              /\ d >= raw
                              /\ d = 1 \/ d = raw
            /\ ~harness.hit => d = 0

\* C7 witness: a hit whose roll does not exceed the defense, so the floor of 1 applies.
C7_Witness ==
    /\ Attacked
    /\ harness.hit
    /\ harness.base <= harness.prevTgt.defense
    /\ harness.dmg = 1

\* xp banked over all levels: leftover xp plus the thresholds already paid.
TotalXp(a) == a.xp + 25 * a.level * (a.level - 1)

\* C8: the defender's hp drops by exactly the returned damage (no clamp at
\* 0), died is reported exactly when the defender's hp is <= 0 afterwards, the
\* attacker is credited the defender's xp yield exactly when it died; and the
\* Warrior-vs-Rat scenario with forced hits and roll 5.
C8_AttackEffect ==
    Attacked =>
        /\ harness.tgt.hp = harness.prevTgt.hp - harness.dmg
        /\ harness.died <=> harness.tgt.hp <= 0
        /\ harness.died =>
             TotalXp(harness.att) = TotalXp(harness.prevAtt) + xp_yield_of(harness.prevTgt)
        /\ ~harness.died => harness.att = harness.prevAtt
        /\ (harness.att0.name = "Warrior" /\ harness.tgt0.name = "Rat") =>
             /\ harness.draws = <<<<TRUE, 5>>>> =>
                  harness.tgt.hp = 5 /\ ~harness.died
             /\ harness.draws = <<<<TRUE, 5>>, <<TRUE, 5>>>> =>
                  /\ harness.tgt.hp = 0 /\ harness.died
                  /\ harness.att.xp = 10 /\ harness.att.level = 1

\* C8 witness: the second forced hit of the scenario has killed the Rat.
C8_Witness ==
    /\ Attacked
    /\ harness.att0.name = "Warrior" /\ harness.tgt0.name = "Rat"
    /\ harness.draws = <<<<TRUE, 5>>, <<TRUE, 5>>>>
    /\ harness.died /\ harness.att.xp = 10

(***************************************************************************)
(* Rect and GameMap                                                        *)
(***************************************************************************)
\* Rect.__init__
Rect(x, y, w, h) == [x1 |-> x, y1 |-> y, x2 |-> x + w, y2 |-> y + h]

\* Rect.center (// is floor division; the operands are never negative)
center(r) == <<(r.x1 + r.x2) \div 2, (r.y1 + r.y2) \div 2>>

\* Rect.intersect with strict comparisons (mutated: touching rooms pass).
intersect_Strict(r, other) ==
    /\ r.x1 < other.x2 /\ r.x2 > other.x1
    /\ r.y1 < other.y2 /\ r.y2 > other.y1

\* Rect.intersect: inclusive bounds.
intersect(r, other) ==
    /\ r.x1 <= other.x2 /\ r.x2 >= other.x1
    /\ r.y1 <= other.y2 /\ r.y2 >= other.y1

\* The cells the carve loop of an accepted room unblocks.
carve(r) == {<<ix, iy>> : ix \in (r.x1 + 1)..(r.x2 - 1), iy \in (r.y1 + 1)..(r.y2 - 1)}

\* Tunnels whose first run is carved along the new center's coordinate
\* (mutated: cy for py, cx for px).
tunnels_WrongRun(p, c, horizontalFirst) ==
    IF horizontalFirst
    THEN {<<ix, c[2]>> : ix \in Min(p[1], c[1])..Max(p[1], c[1])} \cup
         {<<c[1], iy>> : iy \in Min(p[2], c[2])..Max(p[2], c[2])}
    ELSE {<<c[1], iy>> : iy \in Min(p[2], c[2])..Max(p[2], c[2])} \cup
         {<<ix, c[2]>> : ix \in Min(p[1], c[1])..Max(p[1], c[1])}

\* Tunnels without their second run (mutated).
tunnels_NoSecondRun(p, c, horizontalFirst) ==
    IF horizontalFirst
    THEN {<<ix, p[2]>> : ix \in Min(p[1], c[1])..Max(p[1], c[1])}
    ELSE {<<p[1], iy>> : iy \in Min(p[2], c[2])..Max(p[2], c[2])}

\* The cells the tunnel loops unblock between the previous center p and the
\* new center c, for either value of random.choice([True, False]).
tunnels(p, c, horizontalFirst) ==
    IF horizontalFirst
    THEN {<<ix, p[2]>> : ix \in Min(p[1], c[1])..Max(p[1], c[1])} \cup
         {<<c[1], iy>> : iy \in Min(p[2], c[2])..Max(p[2], c[2])}
    ELSE {<<p[1], iy>> : iy \in Min(p[2], c[2])..Max(p[2], c[2])} \cup
         {<<ix, c[2]>> : ix \in Min(p[1], c[1])..Max(p[1], c[1])}

\* One iteration of the loop of _create_rooms_and_corridors, for the drawn
\* w, h, x, y and coin: the tiles, rooms and routing history afterwards.
create_room(ts, rs, rt, w, h, x, y, coin) ==
    LET r == Rect(x, y, w, h)
    IN  IF \E i \in DOMAIN rs : intersect(r, rs[i])
        THEN [tiles |-> ts, rooms |-> rs, routes |-> rt]
        ELSE [tiles |-> ts \cup carve(r) \cup
                        (IF rs # <<>>
                         THEN tunnels(center(rs[Len(rs)]), center(r), coin)
                         ELSE {}),
              rooms |-> Append(rs, r),
              routes |-> IF rs # <<>> THEN Append(rt, coin) ELSE rt]

\* GameMap.is_blocked
is_blocked(ts, x, y) ==
    IF x < 0 \/ x >= MAP_WIDTH \/ y < 0 \/ y >= MAP_HEIGHT
    THEN TRUE
    ELSE <<x, y>> \notin ts

\* The draws of one iteration that the code's randint ranges allow.
RoomDrawOk(d) ==
    /\ d[1] \in ROOM_MIN_SIZE..ROOM_MAX_SIZE
    /\ d[2] \in ROOM_MIN_SIZE..ROOM_MAX_SIZE
    /\ d[3] \in 0..(MAP_WIDTH - d[1] - 1)
    /\ d[4] \in 0..(MAP_HEIGHT - d[2] - 1)

\* Candidate draws <<w, h, x, y>>; an action draws from a prefix of this list.
RoomPool ==
    << <<6, 6, 0, 0>>,      \* (0,0)-(6,6), center (3,3)
       <<6, 6, 7, 1>>,      \* (7,1)-(13,7), center (10,4): clear of the first
       <<7, 6, 0, 6>>,      \* (0,6)-(7,12): shares an edge with the first
       <<10, 10, 29, 19>>,  \* (29,19)-(39,29): the far corner of the grid
       <<8, 6, 3, 3>>,      \* (3,3)-(11,9): overlaps the first three
       <<6, 10, 20, 0>>,    \* (20,0)-(26,10), center (23,5)
       <<10, 6, 14, 20>>,   \* (14,20)-(24,26), center (19,23)
       <<6, 6, 33, 0>>,     \* (33,0)-(39,6)
       <<9, 7, 0, 22>>,     \* (0,22)-(9,29)
       <<6, 6, 14, 8>> >>   \* (14,8)-(20,14): shares an edge with the sixth

RoomDraws(n) == {RoomPool[i] : i \in {j \in 1..Min(n, Len(RoomPool)) : RoomDrawOk(RoomPool[j])}}


\* The number of iterations of the room loop (mutated: one too many).
room_attempts_OneMore == MAX_ROOMS + 1

\* range(MAX_ROOMS)
room_attempts == MAX_ROOMS

\* The state at the start of GameMap.__init__: every tile blocked, no room.
MapReset ==
    /\ tiles' = {} /\ rooms' = <<>> /\ items' = <<>> /\ routes' = <<>>
    /\ loopi' = 0 /\ genlog' = [first |-> <<>>, draws |-> 0]

\* One iteration of the room loop; after the last one the generator goes on
\* to _place_items.
GenRoom(draws) ==
    /\ pc = "rooms"
    /\ loopi < room_attempts
    /\ \E d \in draws, coin \in BOOLEAN :
         LET m == create_room(tiles, rooms, routes, d[1], d[2], d[3], d[4], coin)
         IN  /\ tiles' = m.tiles /\ rooms' = m.rooms /\ routes' = m.routes
             /\ genlog' = [first |-> IF genlog.draws = 0 THEN d ELSE genlog.first,
                           draws |-> genlog.draws + 1]
    /\ loopi' = loopi + 1
    /\ UNCHANGED <<items, player, actors, pc, saved, floorNo, turns, last, harness>>

(***************************************************************************)
(* The generator alone, over GenRoomChoices candidates.                    *)
(***************************************************************************)
GenRoomChoices == 6

GenInit ==
    /\ tiles = {} /\ rooms = <<>> /\ items = <<>> /\ routes = <<>>
    /\ loopi = 0 /\ genlog = [first |-> <<>>, draws |-> 0]
    /\ player = [name |-> "none"] /\ actors = <<>> /\ pc = "rooms"
    /\ saved = <<>> /\ floorNo = 1 /\ turns = 0 /\ last = <<>> /\ harness = <<>>

\* The room loop has run out: GameMap.__init__ goes on to _place_items.
RoomsDone ==
    /\ pc = "rooms"
    /\ loopi >= room_attempts
    /\ pc' = "items"
    /\ loopi' = 1
    /\ UNCHANGED <<tiles, rooms, items, player, actors, saved, routes,
                   floorNo, turns, genlog, last, harness>>

GenNext == GenRoom(RoomDraws(GenRoomChoices)) \/ RoomsDone
SpecGen == GenInit /\ [][GenNext]_vars

RoomsFinished == pc \notin {"rooms", "harness"}

\* C3: no two accepted rooms overlap (inclusive-bound test; rooms sharing an
\* edge count as overlapping).
C3_NoOverlap ==
    \A i, j \in DOMAIN rooms :
        i # j =>
            ~(/\ rooms[i].x1 <= rooms[j].x2 /\ rooms[j].x1 <= rooms[i].x2
              /\ rooms[i].y1 <= rooms[j].y2 /\ rooms[j].y1 <= rooms[i].y2)

\* C3 witness: a floor with three rooms, after a candidate was rejected.
C3_Witness ==
    /\ pc = "items"
    /\ Len(rooms) >= 3
    /\ genlog.draws > Len(rooms)

\* The cells of the L-shaped corridor from center p to center c, stated
\* cell by cell: the first run keeps p's coordinate, the second keeps c's.
CorridorCells(p, c, horizontalFirst) ==
    {cell \in (Min(p[1], c[1])..Max(p[1], c[1])) \X (Min(p[2], c[2])..Max(p[2], c[2])) :
        IF horizontalFirst
        THEN cell[2] = p[2] \/ cell[1] = c[1]
        ELSE cell[1] = p[1] \/ cell[2] = c[2]}

InteriorOpen ==
    \A i \in DOMAIN rooms :
        \A ix \in (rooms[i].x1 + 1)..(rooms[i].x2 - 1), iy \in (rooms[i].y1 + 1)..(rooms[i].y2 - 1) :
            <<ix, iy>> \in tiles

CorridorsOpen ==
    \A i \in 2..Len(rooms) :
        CorridorCells(center(rooms[i - 1]), center(rooms[i]), routes[i - 1]) \subseteq tiles

\* C4: when generation has finished, every interior tile of every accepted
\* room and every cell of every carved corridor is unblocked; and no step of
\* the generator or of a turn blocks a tile of the floor again.
C4_OpenTiles ==
    /\ [](RoomsFinished => (InteriorOpen /\ CorridorsOpen))
    /\ [][floorNo' = floorNo => tiles \subseteq tiles']_vars

\* The cells reachable from the cells of `frontier` by steps between
\* 4-adjacent unblocked tiles.
Neighbours(f) ==
    {<<f[1] + 1, f[2]>>, <<f[1] - 1, f[2]>>, <<f[1], f[2] + 1>>, <<f[1], f[2] - 1>>}

RECURSIVE Flood(_, _)
Flood(frontier, seen) ==
    LET next == ((UNION {Neighbours(f) : f \in frontier}) \cap tiles) \ seen
    IN  IF next = {} THEN seen ELSE Flood(next, seen \cup next)

Reach(cell) == IF cell \in tiles THEN Flood({cell}, {cell}) ELSE {}

\* C5: the accepted rooms form one connected region: every room's center is
\* joined to its predecessor's by unblocked 4-adjacent tiles, so the stairs
\* tile (center of the last room) is reachable from the start tile (center of
\* the first room).
C5_Connected ==
    (RoomsFinished /\ rooms # <<>>) =>
        LET r == Reach(center(rooms[1]))
        IN  \A i \in DOMAIN rooms : center(rooms[i]) \in r

\* C5 witness: a finished floor of at least three rooms, with both routings.
C5_Witness ==
    /\ pc = "items"
    /\ Len(rooms) >= 3
    /\ \E i, j \in DOMAIN routes : routes[i] /\ ~routes[j]

\* C6: generation ends with at least one and at most MAX_ROOMS rooms: the
\* first candidate drawn is the first room, and every one of the MAX_ROOMS
\* iterations draws one candidate, accepted or skipped (none is retried).
C6_RoomList ==
    RoomsFinished =>
        /\ Len(rooms) >= 1
        /\ Len(rooms) <= MAX_ROOMS
        /\ rooms[1] = Rect(genlog.first[3], genlog.first[4], genlog.first[1], genlog.first[2])
        /\ genlog.draws = MAX_ROOMS
        /\ Len(rooms) <= genlog.draws

\* C6 witness: a finished floor where some candidate was skipped.
C6_Witness ==
    /\ pc = "items"
    /\ Len(rooms) \in 1..(genlog.draws - 1)

(***************************************************************************)
(* Items, monsters and the floor transition                                *)
(***************************************************************************)
MaxTurns == 11          \* turns played in one session

\* The room candidates drawn in the game: two rooms clear of each other and
\* one that shares an edge with the first.
GameRoomDraws == {d \in {RoomPool[1], RoomPool[2], RoomPool[3]} : RoomDrawOk(d)}

\* Item.__init__; id tells apart the Item objects (floor and creation order).
Item(x, y, name, effect, id) ==
    [x |-> x, y |-> y, name |-> name, effect |-> effect, id |-> id]

NoPlayer == [name |-> "none"]
PlayerRef == [ref |-> "player"]
IsPlayer(a) == "ref" \in DOMAIN a

\* What a turn did; strikes lists the attack_target calls of the turn in
\* order, pre is the player between the combat loop and the item loop (so
\* right before next_floor when the turn enters it).
NoTurn ==
    [moved |-> FALSE, fought |-> FALSE, picked |-> FALSE, healed |-> FALSE, descended |-> FALSE,
     strikes |-> <<>>, pre |-> NoPlayer]

\* The positions drawn inside a room (within randint(x1+1, x2-1) x
\* randint(y1+1, y2-1)): potions on its first interior corner, monsters on
\* that corner or on its center.
PotionSpots(room) == {<<room.x1 + 1, room.y1 + 1>>}

\* random.randint(0, 2) potions per room, as drawn in the game: none or one.
PotionCounts == {0, 1}
MonsterSpots(room) == {<<room.x1 + 1, room.y1 + 1>>, center(room)}

\* All sequences of length n over the set S.
RECURSIVE SeqsOf(_, _)
SeqsOf(S, n) ==
    IF n = 0 THEN {<<>>}
    ELSE {Append(q, e) : q \in SeqsOf(S, n - 1), e \in S}

\* One iteration of the outer loop of _place_items: random.randint(0, 2)
\* potions in rooms[loopi].
PlaceItems ==
    /\ pc = "items"
    /\ loopi <= Len(rooms)
    /\ \E n \in PotionCounts \cap (0..2) :
         \E spots \in SeqsOf(PotionSpots(rooms[loopi]), n) :
            items' = items \o
                     [k \in 1..n |->
                        Item(spots[k][1], spots[k][2], "Health Potion", "heal",
                             <<floorNo, Len(items) + k>>)]
    /\ loopi' = loopi + 1
    /\ UNCHANGED <<tiles, rooms, player, actors, pc, saved, routes,
                   floorNo, turns, genlog, last, harness>>

\* next_floor after GameMap() with the player put on the last room (mutated).
next_floor_player_LastRoom(p, rs, sv) ==
    LET c == center(rs[Len(rs)])
        q == IF p.name = "none" THEN Warrior(c[1], c[2]) ELSE p
    IN  [q EXCEPT !.x = c[1], !.y = c[2],
                  !.inventory = sv.inv, !.level = sv.lvl, !.xp = sv.xp]

\* next_floor with the player's hp reset to max_hp (mutated).
next_floor_player_FullHp(p, rs, sv) ==
    LET c == center(rs[1])
        q == IF p.name = "none" THEN Warrior(c[1], c[2]) ELSE p
    IN  [q EXCEPT !.x = c[1], !.y = c[2], !.hp = q.max_hp,
                  !.inventory = sv.inv, !.level = sv.lvl, !.xp = sv.xp]

\* next_floor, lines 162-166: the player on the new floor.
next_floor_player(p, rs, sv) ==
    LET c == center(rs[1])
        q == IF p.name = "none" THEN Warrior(c[1], c[2]) ELSE p
    IN  [q EXCEPT !.x = c[1], !.y = c[2],
                  !.inventory = sv.inv, !.level = sv.lvl, !.xp = sv.xp]

\* The end of GameMap.__init__ (the stairs on the last room's center) and the
\* rest of next_floor up to actors = [player].  With no room, rooms[-1]
\* raises IndexError.
PlaceStairs ==
    /\ pc = "items"
    /\ loopi > Len(rooms)
    /\ IF rooms = <<>>
       THEN /\ pc' = "IndexError"
            /\ UNCHANGED <<items, player, actors, loopi>>
       ELSE LET s == center(rooms[Len(rooms)])
            IN  /\ items' = Append(items, Item(s[1], s[2], "Stairs", "stairs",
                                               <<floorNo, Len(items) + 1>>))
                /\ player' = next_floor_player(player, rooms, saved)
                /\ actors' = <<PlayerRef>>
                /\ pc' = "spawn"
                /\ loopi' = 2
    /\ UNCHANGED <<tiles, rooms, saved, routes, floorNo, turns, genlog, last, harness>>

\* random.randint(0, 3) monsters per room, as drawn in the game: up to two.
MonsterCounts == {0, 1, 2}

\* random.choice(monster_templates) as drawn in the game: the Rat.
TemplateDraws == {monster_templates[1]}

\* One iteration of the outer loop of _spawn_monsters (rooms[1:]).
SpawnMonsters ==
    /\ pc = "spawn"
    /\ loopi <= Len(rooms)
    /\ \E n \in MonsterCounts \cap (0..3) :
         \E ms \in SeqsOf(MonsterSpots(rooms[loopi]) \X TemplateDraws, n) :
            actors' = actors \o [k \in 1..n |-> Monster(ms[k][1][1], ms[k][1][2], ms[k][2])]
    /\ loopi' = loopi + 1
    /\ UNCHANGED <<tiles, rooms, items, player, pc, saved, routes,
                   floorNo, turns, genlog, last, harness>>

\* _spawn_monsters and next_floor return: back in the event loop.
SpawnDone ==
    /\ pc = "spawn"
    /\ loopi > Len(rooms)
    /\ pc' = "play"
    /\ UNCHANGED <<tiles, rooms, items, player, actors, loopi, saved, routes,
                   floorNo, turns, genlog, last, harness>>

(***************************************************************************)
(* A turn: Game.handle_keys with one arrow key, then _combat_and_items     *)
(***************************************************************************)
\* dirs of handle_keys: K_UP, K_DOWN, K_LEFT, K_RIGHT
Dirs == {<<0, -1>>, <<0, 1>>, <<-1, 0>>, <<1, 0>>}

\* Actor.move without the is_blocked test (mutated).
move_Unchecked(a, dx, dy, ts) == [a EXCEPT !.x = a.x + dx, !.y = a.y + dy]

\* Actor.move
move(a, dx, dy, ts) ==
    IF ~is_blocked(ts, a.x + dx, a.y + dy)
    THEN [a EXCEPT !.x = a.x + dx, !.y = a.y + dy]
    ELSE a

RemoveAt(q, i) == [k \in 1..(Len(q) - 1) |-> IF k < i THEN q[k] ELSE q[k + 1]]

MinOf(S) == CHOOSE m \in S : \A n \in S : m <= n

\* The last, not the first, monster of the list standing on (x, y) (mutated).
FirstMonsterAt_Last(acts, x, y) ==
    LET S == {i \in DOMAIN acts : ~IsPlayer(acts[i]) /\ acts[i].x = x /\ acts[i].y = y}
    IN  IF S = {} THEN 0 ELSE CHOOSE m \in S : \A n \in S : m >= n

\* The first actor of the list that is not the player and stands on (x, y);
\* 0 when there is none.
FirstMonsterAt(acts, x, y) ==
    LET S == {i \in DOMAIN acts : ~IsPlayer(acts[i]) /\ acts[i].x = x /\ acts[i].y = y}
    IN  IF S = {} THEN 0 ELSE MinOf(S)

\* The first item of the list lying on (x, y); 0 when there is none.
FirstItemAt(its, x, y) ==
    LET S == {j \in DOMAIN its : its[j].x = x /\ its[j].y = y}
    IN  IF S = {} THEN 0 ELSE MinOf(S)

\* random.randint(1, attack) as drawn in the game: the top of the range (the
\* attack harness above draws the whole range).
RollDraws(a) == {a.attack}

\* The combat loop with the monster striking back before its death is looked
\* at (mutated).
combat_CounterAfterDeath(p, acts) ==
    LET i == FirstMonsterAt(acts, p.x, p.y)
    IN  IF i = 0
        THEN {[player |-> p, actors |-> acts, fought |-> FALSE, strikes |-> <<>>]}
        ELSE {LET r == attack_target(p, acts[i], d[1], d[2])
                  r2 == attack_target(r.target, r.attacker, d[3], d[4])
              IN  [player |-> r2.target,
                   actors |-> IF r.died THEN RemoveAt(acts, i)
                              ELSE [acts EXCEPT ![i] = r2.attacker],
                   fought |-> TRUE, strikes |-> <<"player", "monster">>] :
              d \in {e \in BOOLEAN \X RollDraws(p) \X BOOLEAN \X RollDraws(acts[i]) :
                       /\ e[1] \in HitDraws(p, acts[i])
                       /\ e[3] \in HitDraws(acts[i], p)}}

\* The combat loop of _combat_and_items (lines 191-201): the outcomes over
\* the draws of the player's attack and of the monster's counter-attack;
\* strikes lists who called attack_target, in call order.
combat(p, acts) ==
    LET i == FirstMonsterAt(acts, p.x, p.y)
    IN  IF i = 0
        THEN {[player |-> p, actors |-> acts, fought |-> FALSE, strikes |-> <<>>]}
        ELSE {LET r == attack_target(p, acts[i], d[1], d[2])
              IN  IF r.died
                  THEN [player |-> r.attacker, actors |-> RemoveAt(acts, i),
                        fought |-> TRUE, strikes |-> <<"player">>]
                  ELSE LET r2 == attack_target(r.target, r.attacker, d[3], d[4])
                       IN  [player |-> r2.target,
                            actors |-> [acts EXCEPT ![i] = r2.attacker],
                            fought |-> TRUE, strikes |-> <<"player", "monster">>] :
              d \in {e \in BOOLEAN \X RollDraws(p) \X BOOLEAN \X RollDraws(acts[i]) :
                       /\ e[1] \in HitDraws(p, acts[i])
                       /\ e[3] \in HitDraws(acts[i], p)}}

\* The item loop with the potion adding 10 hp without the cap (mutated).
items_and_stairs_NoCap(p, its) ==
    LET j == FirstItemAt(its, p.x, p.y)
        idle == [player |-> p, items |-> its, picked |-> FALSE,
                 healed |-> FALSE, descend |-> FALSE]
    IN  IF j = 0 THEN idle
        ELSE IF its[j].effect = "stairs" THEN [idle EXCEPT !.descend = TRUE]
        ELSE LET q == IF its[j].effect = "heal"
                      THEN [p EXCEPT !.hp = p.hp + 10]
                      ELSE p
             IN  [player |-> [q EXCEPT !.inventory = Append(p.inventory, its[j])],
                  items |-> RemoveAt(its, j), picked |-> TRUE,
                  healed |-> its[j].effect = "heal", descend |-> FALSE]

\* The item loop with the picked-up item left in the floor list (mutated).
items_and_stairs_KeepOnFloor(p, its) ==
    LET j == FirstItemAt(its, p.x, p.y)
        idle == [player |-> p, items |-> its, picked |-> FALSE,
                 healed |-> FALSE, descend |-> FALSE]
    IN  IF j = 0 THEN idle
        ELSE IF its[j].effect = "stairs" THEN [idle EXCEPT !.descend = TRUE]
        ELSE LET q == IF its[j].effect = "heal"
                      THEN [p EXCEPT !.hp = Min(p.max_hp, p.hp + 10)]
                      ELSE p
             IN  [player |-> [q EXCEPT !.inventory = Append(p.inventory, its[j])],
                  items |-> its, picked |-> TRUE,
                  healed |-> its[j].effect = "heal", descend |-> FALSE]

\* The item loop with the stairs also restoring 10 hp, capped, before the
\* transition (mutated).
items_and_stairs_RestOnStairs(p, its) ==
    LET j == FirstItemAt(its, p.x, p.y)
        idle == [player |-> p, items |-> its, picked |-> FALSE,
                 healed |-> FALSE, descend |-> FALSE]
    IN  IF j = 0 THEN idle
        ELSE IF its[j].effect = "stairs"
             THEN [idle EXCEPT !.descend = TRUE,
                               !.player = [p EXCEPT !.hp = Min(p.max_hp, p.hp + 10)]]
        ELSE LET q == IF its[j].effect = "heal"
                      THEN [p EXCEPT !.hp = Min(p.max_hp, p.hp + 10)]
                      ELSE p
             IN  [player |-> [q EXCEPT !.inventory = Append(p.inventory, its[j])],
                  items |-> RemoveAt(its, j), picked |-> TRUE,
                  healed |-> its[j].effect = "heal", descend |-> FALSE]

\* The item loop of _combat_and_items (lines 203-208), up to the call of
\* next_floor, which `descend` reports.
items_and_stairs(p, its) ==
    LET j == FirstItemAt(its, p.x, p.y)
        idle == [player |-> p, items |-> its, picked |-> FALSE,
                 healed |-> FALSE, descend |-> FALSE]
    IN  IF j = 0 THEN idle
        ELSE IF its[j].effect = "stairs" THEN [idle EXCEPT !.descend = TRUE]
        ELSE LET q == IF its[j].effect = "heal"
                      THEN [p EXCEPT !.hp = Min(p.max_hp, p.hp + 10)]
                      ELSE p
             IN  [player |-> [q EXCEPT !.inventory = Append(p.inventory, its[j])],
                  items |-> RemoveAt(its, j), picked |-> TRUE,
                  healed |-> its[j].effect = "heal", descend |-> FALSE]

\* _combat_and_items with the item loop run only when no combat was resolved
\* (mutated).
combat_and_items_ItemsIfNoCombat(p, acts, its) ==
    {[combat |-> c,
      after |-> IF c.fought
                THEN [player |-> c.player, items |-> its, picked |-> FALSE,
                      healed |-> FALSE, descend |-> FALSE]
                ELSE items_and_stairs(c.player, its)] :
        c \in combat(p, acts)}

\* _combat_and_items: the combat loop, then the item loop.
combat_and_items(p, acts, its) ==
    {[combat |-> c, after |-> items_and_stairs(c.player, its)] : c \in combat(p, acts)}

\* handle_keys for one KEYDOWN of an arrow key with the inventory closed:
\* the move, then _combat_and_items; stepping on the stairs enters
\* next_floor, whose generator then runs step by step.
Turn ==
    /\ pc = "play"
    /\ turns < MaxTurns
    /\ \E d \in Dirs :
         LET p1 == move(player, d[1], d[2], tiles)
         IN  \E o \in combat_and_items(p1, actors, items) :
               /\ last' = [moved |-> <<p1.x, p1.y>> # <<player.x, player.y>>,
                           fought |-> o.combat.fought,
                           picked |-> o.after.picked, healed |-> o.after.healed,
                           descended |-> o.after.descend,
                           strikes |-> o.combat.strikes,
                           pre |-> o.combat.player]
               /\ actors' = o.combat.actors
               /\ player' = o.after.player
               /\ IF o.after.descend
                  THEN /\ saved' = [inv |-> o.after.player.inventory,
                                    lvl |-> o.after.player.level,
                                    xp |-> o.after.player.xp]
                       /\ MapReset
                       /\ pc' = "rooms"
                       /\ floorNo' = floorNo + 1
                  ELSE /\ items' = o.after.items
                       /\ UNCHANGED <<tiles, rooms, routes, loopi, genlog, saved,
                                      pc, floorNo>>
    /\ turns' = turns + 1
    /\ UNCHANGED harness

\* Game.__init__: next_floor with no player yet.
Init ==
    /\ tiles = {} /\ rooms = <<>> /\ items = <<>> /\ routes = <<>>
    /\ loopi = 0 /\ genlog = [first |-> <<>>, draws |-> 0]
    /\ player = NoPlayer /\ actors = <<>> /\ pc = "rooms"
    /\ saved = [inv |-> <<>>, lvl |-> 1, xp |-> 0]
    /\ floorNo = 1 /\ turns = 0 /\ last = NoTurn /\ harness = <<>>

Next ==
    \/ GenRoom(GameRoomDraws)
    \/ RoomsDone
    \/ PlaceItems
    \/ PlaceStairs
    \/ SpawnMonsters
    \/ SpawnDone
    \/ Turn

Spec == Init /\ [][Next]_vars

(***************************************************************************)
(* Properties of the game                                                  *)
(***************************************************************************)
\* C4 witness: a floor of two rooms whose centers differ in both coordinates,
\* joined vertical-first, on which a turn has been played.
C4_Witness ==
    /\ pc = "play"
    /\ turns >= 1
    /\ Len(rooms) = 2
    /\ routes = <<FALSE>>
    /\ center(rooms[1])[1] # center(rooms[2])[1]
    /\ center(rooms[1])[2] # center(rooms[2])[2]
    /\ ~last.descended

\* C2: in a turn that triggers a floor transition, the player's inventory,
\* level and xp right after the transition equal those right before it, and
\* the player stands on the center of the first accepted room of the new floor.
C2_StairsRoundTrip ==
    (last.descended /\ pc \in {"spawn", "play"}) =>
        /\ player.inventory = last.pre.inventory
        /\ player.level = last.pre.level
        /\ player.xp = last.pre.xp
        /\ <<player.x, player.y>> = center(rooms[1])

\* C2 witness: a transition finished with a potion in the inventory and xp
\* banked, onto a floor of two rooms.
C2_Witness ==
    /\ last.descended
    /\ pc = "play"
    /\ player.inventory # <<>>
    /\ player.xp > 0
    /\ Len(rooms) >= 2

InBounds(c) == c[1] \in 0..(MAP_WIDTH - 1) /\ c[2] \in 0..(MAP_HEIGHT - 1)

\* C9: a move changes the position exactly when the destination is in
\* bounds and unblocked, and leaves it alone otherwise; hence whenever the
\* event loop runs, the player stands on an in-bounds, unblocked tile.
C9_Move ==
    /\ [](pc \in {"spawn", "play"} =>
            (InBounds(<<player.x, player.y>>) /\ <<player.x, player.y>> \in tiles))
    /\ [][turns' = turns + 1 =>
            \E d \in Dirs :
                LET dest == <<player.x + d[1], player.y + d[2]>>
                IN  /\ <<player'.x, player'.y>> =
                          IF InBounds(dest) /\ dest \in tiles
                          THEN dest
                          ELSE <<player.x, player.y>>
                    /\ last'.moved <=> (InBounds(dest) /\ dest \in tiles)]_vars

\* C9 witness: on a later floor, a turn whose move was refused.
C9_Witness ==
    /\ pc = "play"
    /\ floorNo >= 2
    /\ turns >= 1
    /\ ~last.descended
    /\ ~last.moved

\* C10 as claimed: in a turn with combat no item is picked up, no healing is
\* applied and no floor transition happens.
C10_ItemsOnlyWithoutCombat ==
    last.fought => (~last.picked /\ ~last.healed /\ ~last.descended)

\* C10 as the code has it: the item loop runs after the combat loop in every
\* turn; in a turn with combat the first item on the player's tile is still
\* picked up (a potion heals) and the stairs still start the transition.
C10_ItemsAfterCombat ==
    [][(turns' = turns + 1 /\ last'.fought) =>
          LET j == FirstItemAt(items, player'.x, player'.y)
          IN  /\ j = 0 => (~last'.picked /\ ~last'.descended /\ items' = items)
              /\ (j # 0 /\ items[j].effect = "stairs") =>
                    (last'.descended /\ pc' = "rooms" /\ floorNo' = floorNo + 1)
              /\ (j # 0 /\ items[j].effect = "heal") =>
                    /\ last'.picked /\ last'.healed /\ ~last'.descended
                    /\ player'.inventory = Append(player.inventory, items[j])
                    /\ Len(items') = Len(items) - 1
                    /\ \A k \in DOMAIN items' : items'[k].id # items[j].id]_vars

\* C10 witness: a turn with combat that went down the stairs, after an earlier
\* one had put a potion in the inventory.
C10_Witness == last.fought /\ last.descended /\ last.pre.inventory # <<>>

\* The damage one attack of a on target can deal: none on a miss, else
\* max(1, randint(1, a.attack) - target.defense).
Damages(a, target) == {0} \cup {Max(1, b - target.defense) : b \in 1..a.attack}

\* C11: in a turn where the player shares a tile with a monster the player
\* attacks first; a monster that survives attacks the player exactly once in
\* that turn; a monster that dies is removed from the actor list in that turn
\* and makes no attack.
C11_Exchange ==
    [][(turns' = turns + 1 /\ last'.fought) =>
          LET i == FirstMonsterAt(actors, last'.pre.x, last'.pre.y)
          IN  /\ i # 0
              /\ last'.strikes[1] = "player"
              /\ IF Len(actors') < Len(actors)
                 THEN /\ actors' = RemoveAt(actors, i)
                      /\ \E dmg \in Damages(player, actors[i]) : actors[i].hp - dmg <= 0
                      /\ last'.strikes = <<"player">>
                      /\ last'.pre.hp = player.hp
                 ELSE /\ Len(actors') = Len(actors)
                      /\ actors'[i].hp > 0
                      /\ actors[i].hp - actors'[i].hp \in Damages(player, actors[i])
                      /\ last'.strikes = <<"player", "monster">>
                      /\ player.hp - last'.pre.hp \in Damages(actors[i], player)]_vars

\* C11 witness: a turn in which the monster died without striking, after an
\* earlier turn in which it survived and hit back.
C11_Witness ==
    /\ last.strikes = <<"player">>
    /\ player.hp < player.max_hp
    /\ player.xp > 0

\* The monsters of the actor list standing on the tile (x, y), by index.
MonstersOn(acts, x, y) ==
    {k \in DOMAIN acts : ~IsPlayer(acts[k]) /\ acts[k].x = x /\ acts[k].y = y}

\* C12: a turn resolves at most one combat exchange; of the monsters on the
\* player's tile only the first in actor-list (spawn) order is attacked,
\* whether it dies or survives, and every other actor of the list is left as
\* it was, hp included.
C12_OneExchange ==
    [][turns' = turns + 1 =>
          LET S == MonstersOn(actors, last'.pre.x, last'.pre.y)
          IN  /\ last'.fought <=> S # {}
              /\ Cardinality({n \in DOMAIN last'.strikes : last'.strikes[n] = "player"}) <= 1
              /\ Cardinality({n \in DOMAIN last'.strikes : last'.strikes[n] = "monster"}) <= 1
              /\ Len(actors') \in {Len(actors), Len(actors) - 1}
              /\ Len(actors') < Len(actors) => S # {}
              /\ \A k \in DOMAIN actors :
                    (\E j \in S : j < k) \/ k \notin S =>
                        LET gone == Len(actors') < Len(actors) /\ (\E j \in S : j < k)
                        IN  actors'[IF gone THEN k - 1 ELSE k] = actors[k]]_vars

\* C12 witness: the first monster on the player's tile was killed this turn
\* and a second one on the same tile still has all its hp.
C12_Witness ==
    /\ last.strikes = <<"player">>
    /\ \E k \in MonstersOn(actors, player.x, player.y) : actors[k].hp = actors[k].max_hp

\* The interior cells of a room.
Interior(room) == ((room.x1 + 1)..(room.x2 - 1)) \X ((room.y1 + 1)..(room.y2 - 1))

\* The tiles the generator opens for the room list rs joined by the routes rt.
OpenedBy(rs, rt) ==
    UNION ({Interior(rs[i]) : i \in DOMAIN rs} \cup
           {CorridorCells(center(rs[i - 1]), center(rs[i]), rt[i - 1]) : i \in 2..Len(rs)})

\* C13: a floor transition leaves the player's hp as it was (it is not reset
\* to max_hp), while the tile grid, the item list and the monsters are those
\* generated for the new floor and the actor list holds only the player
\* followed by the new floor's monsters.
C13_Transition ==
    (last.descended /\ pc \in {"spawn", "play"}) =>
        /\ player.hp = last.pre.hp
        /\ player.max_hp = last.pre.max_hp
        /\ tiles = OpenedBy(rooms, routes)
        /\ \A j \in DOMAIN items : items[j].id[1] = floorNo
        /\ actors[1] = PlayerRef
        /\ \A k \in 2..Len(actors) :
              /\ ~IsPlayer(actors[k])
              /\ actors[k].hp = actors[k].max_hp
              /\ \E i \in 2..Len(rooms) : <<actors[k].x, actors[k].y>> \in Interior(rooms[i])

\* C13 witness: a transition entered with the player wounded by a monster
\* that was still alive on the stairs, finished on a floor with monsters.
C13_Witness ==
    /\ last.descended
    /\ last.strikes = <<"player", "monster">>
    /\ pc = "play"
    /\ player.hp < player.max_hp
    /\ Len(actors) > 1

\* C14: picking up a heal item sets the player's hp to min(max_hp, hp + 10),
\* hp being the value the combat loop of that turn left; and the player's hp
\* never exceeds max_hp.
C14_HealCapped ==
    /\ player # NoPlayer => player.hp <= player.max_hp
    /\ last.healed => player.hp = Min(player.max_hp, last.pre.hp + 10)

\* C14 witness: a potion picked up by a player whom a monster had wounded in
\* the combat loop of the same turn.
C14_Witness ==
    /\ last.healed
    /\ last.fought
    /\ last.pre.hp < last.pre.max_hp
    /\ pc = "play"

\* C15: no item is in the floor's item list and in the player's inventory at
\* once; a pickup has the item out of the floor list and at the end of the
\* inventory in the same turn; the stairs are never in the inventory; and
\* while a floor is active its item list holds exactly one stairs item, on the
\* center of the last accepted room.
C15_ItemOwnership ==
    /\ player # NoPlayer =>
          /\ \A j \in DOMAIN items, n \in DOMAIN player.inventory :
                items[j].id # player.inventory[n].id
          /\ \A n \in DOMAIN player.inventory : player.inventory[n].effect # "stairs"
    /\ last.picked =>
          /\ Len(player.inventory) = Len(last.pre.inventory) + 1
          /\ player.inventory[Len(player.inventory)].id[1] = floorNo
    /\ pc \in {"spawn", "play"} =>
          /\ Cardinality({j \in DOMAIN items : items[j].effect = "stairs"}) = 1
          /\ \A j \in DOMAIN items :
                items[j].effect = "stairs" =>
                    <<items[j].x, items[j].y>> = center(rooms[Len(rooms)])

\* C15 witness: a turn played on a later floor that has a potion lying on it,
\* by a player carrying a potion picked up on an earlier floor.
C15_Witness ==
    /\ pc = "play"
    /\ floorNo >= 2
    /\ ~last.descended
    /\ \E n \in DOMAIN player.inventory : player.inventory[n].id[1] < floorNo
    /\ \E j \in DOMAIN items : items[j].effect = "heal"

\* The steps outside the combat loop leave every hp alone: a turn without
\* combat changes no monster and leaves the player's hp to the item loop, and
\* a step of the floor generation keeps the player's hp and only adds
\* monsters that have all their hp.
HpKeptOutsideCombat ==
    /\ (turns' = turns + 1 /\ ~last'.fought) =>
          (actors' = actors /\ last'.pre.hp = player.hp)
    /\ (turns' = turns /\ player # NoPlayer) => player'.hp = player.hp
    /\ turns' = turns =>
          \A k \in DOMAIN actors' :
              \/ IsPlayer(actors'[k])
              \/ actors'[k].hp = actors'[k].max_hp
              \/ (k \in DOMAIN actors /\ actors'[k] = actors[k])

\* C16 as claimed: attack_target is the only path that changes an actor's
\* hp; no other step of a turn (the move, the item/stairs check, the floor
\* transition) changes any hp.
C16_OnlyAttacksChangeHp ==
    [][/\ HpKeptOutsideCombat
       /\ turns' = turns + 1 => player'.hp = last'.pre.hp]_vars

\* C16 as the code has it: attacks are the only path that lowers an hp, and
\* the one other change is the potion picked up in the item loop, which sets
\* the player's hp to min(max_hp, hp + 10); the move, the stairs and the
\* floor transition change no hp.
C16_AttacksAndPotions ==
    [][/\ HpKeptOutsideCombat
       /\ turns' = turns + 1 =>
             player'.hp = IF last'.healed
                          THEN Min(last'.pre.max_hp, last'.pre.hp + 10)
                          ELSE last'.pre.hp]_vars

\* C16 witness: a potion raised the hp of a player whom the monster on the
\* same tile had hit in the combat loop of that turn.
C16_Witness ==
    /\ last.healed
    /\ last.strikes = <<"player", "monster">>
    /\ player.hp > last.pre.hp

\* C18 as claimed: a turn whose move was refused (destination blocked or out
\* of bounds) leaves the whole game state as it was, whatever stands or lies
\* on the player's tile.
C18_BlockedMoveIgnored ==
    [][(turns' = turns + 1 /\ ~last'.moved) =>
          /\ player' = player
          /\ actors' = actors
          /\ items' = items
          /\ <<tiles', rooms', floorNo', pc'>> = <<tiles, rooms, floorNo, pc>>]_vars

(***************************************************************************)
(* Harness for the progression of a session: the player meets monsters of  *)
(* every template, one after another, fights them with the combat loop and *)
(* goes through floor transitions.                                         *)
(***************************************************************************)
MaxProgSteps == 14      \* meetings, exchanges and transitions in one session

\* The room list of the harness's floors: one room.
ProgRooms == <<Rect(0, 0, 6, 6)>>

ProgInit ==
    /\ IdleGame
    /\ harness = [p |-> next_floor_player(NoPlayer, ProgRooms,
                                          [inv |-> <<>>, lvl |-> 1, xp |-> 0]),
                  acts |-> <<PlayerRef>>, floor |-> 1, steps |-> 0]

\* The player comes to stand on the tile of a monster of this floor
\* (_spawn_monsters: any template, all its hp).
ProgMeet ==
    /\ pc = "harness"
    /\ "steps" \in DOMAIN harness
    /\ harness.steps < MaxProgSteps
    /\ Len(harness.acts) = 1
    /\ \E i \in DOMAIN monster_templates :
         harness' = [harness EXCEPT
                       !.acts = Append(harness.acts,
                                       Monster(harness.p.x, harness.p.y, monster_templates[i])),
                       !.steps = harness.steps + 1]
    /\ UNCHANGED gameVars

\* A turn on the monster's tile: the combat loop of _combat_and_items.
ProgFight ==
    /\ pc = "harness"
    /\ "steps" \in DOMAIN harness
    /\ harness.steps < MaxProgSteps
    /\ Len(harness.acts) > 1
    /\ \E o \in combat(harness.p, harness.acts) :
         harness' = [harness EXCEPT !.p = o.player, !.acts = o.actors,
                                    !.steps = harness.steps + 1]
    /\ UNCHANGED gameVars

\* next_floor: inventory, level and xp saved and restored, the actor list
\* reset to the player.
ProgDescend ==
    /\ pc = "harness"
    /\ "steps" \in DOMAIN harness
    /\ harness.steps < MaxProgSteps
    /\ LET sv == [inv |-> harness.p.inventory, lvl |-> harness.p.level, xp |-> harness.p.xp]
       IN  harness' = [harness EXCEPT
                         !.p = next_floor_player(harness.p, ProgRooms, sv),
                         !.acts = <<PlayerRef>>,
                         !.floor = harness.floor + 1,
                         !.steps = harness.steps + 1]
    /\ UNCHANGED gameVars

ProgNext == ProgMeet \/ ProgFight \/ ProgDescend
SpecProgress == ProgInit /\ [][ProgNext]_vars

\* C19: with the template table as it is (xp_yield at most 30), the player's
\* leftover xp is always within 0 .. level * 50 - 1, across kills, level-ups
\* and floor transitions.
C19_XpBelowThreshold ==
    /\ \A i \in DOMAIN monster_templates : monster_templates[i].xp <= 30
    /\ harness.p.xp \in 0..(harness.p.level * 50 - 1)

\* C19 witness: a kill took the xp to the level-1 threshold exactly, and the
\* level-2 player went on to a later floor.
C19_Witness ==
    /\ harness.p.level = 2
    /\ harness.p.xp = 0
    /\ harness.floor >= 2

\* C20: the player's level never decreases and stat_points equals
\* 5 * (level - 1) in every state, across turns and floor transitions.
C20_LevelAndPoints ==
    /\ [](harness.p.stat_points = 5 * (harness.p.level - 1))
    /\ [][harness'.p.level >= harness.p.level]_vars

\* C20 witness: a level-2 player with 5 stat points and leftover xp, with a
\* floor transition behind them and a monster on their tile.
C20_Witness ==
    /\ harness.p.level = 2
    /\ harness.p.stat_points = 5
    /\ harness.p.xp > 0
    /\ harness.floor >= 2
    /\ Len(harness.acts) > 1

====
